---- MODULE Spec2Model ----
(***************************************************************************)
(* The ticket workflow of the Tickets cog (src/src/cogs/tickets.py).       *)
(*                                                                         *)
(* Every slash-command submission runs as its own task on the event loop.  *)
(* Python code between two awaits runs without interruption, so each       *)
(* action below is one awaited external effect (a store statement with its *)
(* commit, a channel call) together with the local code around it.  An    *)
(* INSERT/UPDATE/DELETE and the commit that follows it are one action: the *)
(* connection holds the write lock between them and no other connection    *)
(* sees the uncommitted row.  A reply to the submitting user and the       *)
(* lookup of the accused member touch nothing another task reads or        *)
(* writes, so they commute with every step of the other tasks and are      *)
(* taken together with the effect next to them; so is the start of a       *)
(* handler, which is taken together with its first effect.                 *)
(***************************************************************************)
EXTENDS Integers, FiniteSets, Sequences, TLC

\* ---------------------------------------------------------------- bounds
MaxCalls  == 2      \* submissions over a run, each in a task of its own
MaxUser   == 2      \* guild members 1..MaxUser

Tasks     == 1..MaxCalls
Users     == 1..MaxUser
TicketIds == 1..MaxCalls
Bodies    == {"x"}

\* ------------------------------------------------------------- constants
NULL     == 0       \* SQL NULL / Python None in the channel_id column
NoMember == 0       \* get_member returned something that is no Member

\* whom user u names in a report: themself, or the next member
Accusable(u) == {u, (u % MaxUser) + 1}

TicketTypes == {"REPORT", "SUGGESTION"}
Tables      == {"user_report_tickets", "user_suggestion_tickets"}

\* The SUGGESTION branch missing: every ticket type uses the report table.
TableOf_ReportOnly(ticket_type) == "user_report_tickets"

\* ticket type -> table name
TableOf(ticket_type) ==
    IF ticket_type = "REPORT" THEN "user_report_tickets"
                              ELSE "user_suggestion_tickets"

\* ticket_type.name.lower() and ticket_type.name.title()
Lower(ticket_type) == IF ticket_type = "REPORT" THEN "report" ELSE "suggestion"
Title(ticket_type) == IF ticket_type = "REPORT" THEN "Report" ELSE "Suggestion"

\* the *args of create_ticket: discord.Member objects and plain strings
Member(u) == [kind |-> "member", id |-> u]
Str(s)    == [kind |-> "str", val |-> s]

VARIABLES
    table,      \* table name -> set of rows
    seq,        \* table name -> largest ticket_id the store ever assigned
    channels,   \* the guild's ticket channels: records [id, name]
    nextChan,   \* ids handed out by the channel API so far
    posts,      \* embeds sent into channels: records [channel, embed]
    task,       \* task -> the locals of the submission it runs
    ended,      \* outcome and replies of the handler that ended in this step
    calls,      \* submissions started
    clean,      \* history: no other store write on the table since the task's insert
    base,       \* history: table -> id obtained by the last undisturbed create
    issued,     \* history: table -> ticket ids that ever were in the table
    closedOk    \* history: <<table, ticket_id>> pairs whose close reported success

vars == <<table, seq, channels, nextChan, posts, task, ended, calls,
          clean, base, issued, closedOk>>

\* a task that runs no submission
Blank ==
    [pc |-> "idle", cmd |-> "none", ticket_type |-> "REPORT", user |-> NoMember,
     args |-> <<>>, ins |-> NULL, ticket_id |-> NULL, channel |-> NULL,
     deleted |-> FALSE]

\* no handler ended in this step
NoEnd == [cmd |-> "none", out |-> "none", msgs |-> <<>>]

\* ------------------------------------------------------------ the store
SetMax(S) == CHOOSE x \in S : \A y \in S : y <= x
SetMin(S) == CHOOSE x \in S : \A y \in S : x <= y

RowIds(t) == {r.ticket_id : r \in table[t]}

\* the id an auto-increment primary key gives the next inserted row
NextTicketId(t) == SetMax(RowIds(t) \cup {seq[t]}) + 1

\* normalized_sql_values: a Member becomes its id, anything else is kept
Normalize(arg) == IF arg.kind = "member" THEN arg.id ELSE arg.val
NormalizedSqlValues(args) == [i \in 1..Len(args) |-> Normalize(args[i])]

\* the row of "INSERT INTO {table} {values}" with the id the store assigns
NewRow(ticket_type, id, values) ==
    IF ticket_type = "REPORT"
    THEN [ticket_id |-> id, user_id |-> values[1], accused_user_id |-> values[2],
          channel_id |-> NULL, reason_msg |-> values[3]]
    ELSE [ticket_id |-> id, user_id |-> values[1],
          channel_id |-> NULL, suggestion_msg |-> values[2]]

\* A caller that numbers the row itself, one past the last id in the table.
InsertId_FromLastId(t) == SetMax(RowIds(t) \cup {0}) + 1

\* the id of the row that ticket_query inserts: no ticket_id column is
\* given, so the store assigns it
InsertId(t) == NextTicketId(t)

\* ORDER BY ticket_id ASC in place of DESC.
GetIdSql_Asc(t) == IF table[t] = {} THEN <<>> ELSE <<SetMin(RowIds(t))>>

\* get_id_sql: SELECT ticket_id FROM t ORDER BY ticket_id DESC LIMIT 1
GetIdSql(t) == IF table[t] = {} THEN <<>> ELSE <<SetMax(RowIds(t))>>

\* The SELECT without its WHERE clause: the first row of the table.
SelectChannelId_NoWhere(t, id) ==
    IF table[t] = {}
    THEN <<>>
    ELSE <<(CHOOSE r \in table[t] : r.ticket_id = SetMin(RowIds(t))).channel_id>>

\* SELECT channel_id FROM t WHERE ticket_id=?
SelectChannelId(t, id) ==
    IF id \in RowIds(t)
    THEN <<(CHOOSE r \in table[t] : r.ticket_id = id).channel_id>>
    ELSE <<>>

\* The UPDATE without its commit: the row keeps its channel_id.
UpdateChannel_NoCommit(t, channel_id, id) == table[t]

\* UPDATE t SET channel_id = ? WHERE ticket_id = ?
UpdateChannel(t, channel_id, id) ==
    {IF r.ticket_id = id THEN [r EXCEPT !.channel_id = channel_id] ELSE r
        : r \in table[t]}

\* The DELETE without its commit: nothing is removed.
DeleteRow_NoCommit(t, id) == table[t]

\* DELETE FROM t WHERE ticket_id=?
DeleteRow(t, id) == {r \in table[t] : r.ticket_id # id}

\* ------------------------------------------------------------- channels
ChannelName(prefix, ticket_id) == <<prefix, "ticket", ticket_id>>

ChannelIds == {c.id : c \in channels}

\* guild.get_channel(channel_id): the channel, or None
GetChannel(channel_id) == {c \in channels : c.id = channel_id}

\* ------------------------------------------------------------- renderer
Mention(m) == <<"mention", m.id>>

\* The first two add_field calls of the REPORT branch in the other order.
CreateTicketEmbed_AccusedFirst(ticket_type, ticket_id, args) ==
    [colour |-> <<"colour", args[1].id>>,
     title  |-> <<Title(ticket_type), "Ticket", ticket_id>>,
     fields |-> IF ticket_type = "REPORT"
                THEN << <<"Accusing", Mention(args[2])>>,
                        <<"Accuser", Mention(args[1])>>,
                        <<"Reason Given", args[3].val>> >>
                ELSE << <<"Suggestion From", Mention(args[1])>>,
                        <<"Suggestion/Feature Request", args[2].val>> >>]

\* create_ticket_embed(ticket_type, ticket_id, *args)
CreateTicketEmbed(ticket_type, ticket_id, args) ==
    [colour |-> <<"colour", args[1].id>>,
     title  |-> <<Title(ticket_type), "Ticket", ticket_id>>,
     fields |-> IF ticket_type = "REPORT"
                THEN << <<"Accuser", Mention(args[1])>>,
                        <<"Accusing", Mention(args[2])>>,
                        <<"Reason Given", args[3].val>> >>
                ELSE << <<"Suggestion From", Mention(args[1])>>,
                        <<"Suggestion/Feature Request", args[2].val>> >>]

\* The bot starts on the database file and the guild that earlier runs left.
\* Here the report table holds ticket 1, opened by user 1 against user 2 in
\* an earlier run, with its channel and its summary; the suggestion table
\* never held a ticket.
OldArgs == <<Member(1), Member(2), Str("x")>>

OldTicket ==
    [NewRow("REPORT", 1, NormalizedSqlValues(OldArgs)) EXCEPT !.channel_id = 1]

Init ==
    /\ table = [t \in Tables |-> IF t = TableOf("REPORT") THEN {OldTicket} ELSE {}]
    /\ seq = [t \in Tables |-> IF t = TableOf("REPORT") THEN 1 ELSE 0]
    /\ channels = {[id |-> 1, name |-> ChannelName(Lower("REPORT"), 1)]}
    /\ nextChan = 1
    /\ posts = {[channel |-> 1, embed |-> CreateTicketEmbed("REPORT", 1, OldArgs)]}
    /\ task = [p \in Tasks |-> Blank]
    /\ ended = NoEnd
    /\ calls = 0
    /\ clean = [p \in Tasks |-> FALSE]
    /\ base = [t \in Tables |-> IF t = TableOf("REPORT") THEN 1 ELSE 0]
    /\ issued = [t \in Tables |-> IF t = TableOf("REPORT") THEN {1} ELSE {}]
    /\ closedOk = {}

\* ------------------------------------------------------------ task state
Idle(p) == task[p].pc = "idle"

\* the event loop starts the handler of a new submission in a free task;
\* free tasks are interchangeable, the lowest one is taken
Free(p) ==
    /\ Idle(p)
    /\ \A q \in Tasks : Idle(q) => p <= q
    /\ calls < MaxCalls

\* a create_ticket between its insert and its return
InCreate(p) == task[p].pc \in {"c_getid", "c_channel", "c_update", "c_send"}

TableOfTask(p) == TableOf(task[p].ticket_type)

OthersInCreate(p, t) ==
    {q \in Tasks \ {p} : InCreate(q) /\ TableOfTask(q) = t}

\* the handler of task p goes on with locals r
Goes(p, r) ==
    /\ task' = [task EXCEPT ![p] = r]
    /\ ended' = NoEnd

\* the handler of task p ends: its outcome and what it told the user
Ends(p, cmd, out, msgs) ==
    /\ task' = [task EXCEPT ![p] = Blank]
    /\ ended' = [cmd |-> cmd, out |-> out, msgs |-> msgs]

Thanks(cmd) == IF cmd = "report" THEN "THANKS_REPORT" ELSE "THANKS_SUGGESTION"

\* The guard takes the accused for a bare user id; it is a Member, so the
\* comparison never succeeds.
SelfReport_BareId(ticket_type, args, user) ==
    ticket_type = "REPORT" /\ args[2].kind = "id" /\ args[2].id = user

\* prevent users from creating tickets that report themselves
SelfReport(ticket_type, args, user) ==
    ticket_type = "REPORT" /\ args[2].id = user

\* The channel is torn down before the row is deleted.
CloseStage_TeardownFirst(stage) ==
    CASE stage = "k_find"     -> "k_teardown"
      [] stage = "k_teardown" -> "k_delete"
      [] stage = "k_delete"   -> "k_reply"

\* the order of the effects of close_ticket after the ticket was found
CloseStage(stage) ==
    CASE stage = "k_find"     -> "k_delete"
      [] stage = "k_delete"   -> "k_teardown"
      [] stage = "k_teardown" -> "k_reply"

\* what a create_ticket that stops after its insert leaves in the history
CreateBroken(p) ==
    /\ base' = [base EXCEPT ![TableOfTask(p)] = -1]
    /\ clean' = [clean EXCEPT ![p] = FALSE]

\* -------------------------------------------------- front end: the modals
\* The check of get_member's result left out: anything counts as a Member.
IsMember_Any(member) == TRUE

\* isinstance(member, discord.Member) for what get_member returned
IsMember(member) == member # NoMember

\* what get_member returned for the accused that user u named, where
\* on_submit goes on to create_ticket
Resolved(u) == {m \in Accusable(u) \cup {NoMember} : IsMember(m)}

\* /ticket report, get_member finds no member: the report is cancelled
ReportUnresolved(p, u, b) ==
    /\ Free(p)
    /\ ~IsMember(NoMember)
    /\ calls' = calls + 1
    /\ Ends(p, "report", "unresolved", <<"UNABLE">>)
    /\ UNCHANGED <<table, seq, channels, nextChan, posts,
                   clean, base, issued, closedOk>>

\* ---------------------------------------------------------- create_ticket
\* the self-report guard: rebuff the user and return; on_submit then
\* thanks the user
Rebuff(p, cmd, ticket_type, user, args) ==
    /\ Free(p)
    /\ SelfReport(ticket_type, args, user)
    /\ calls' = calls + 1
    /\ Ends(p, cmd, "rejected", <<"SELF_REPORT", Thanks(cmd)>>)
    /\ UNCHANGED <<table, seq, channels, nextChan, posts,
                   clean, base, issued, closedOk>>

\* write the ticket to the database: INSERT with channel_id NULL, commit
Insert(p, cmd, ticket_type, user, args) ==
    LET t   == TableOf(ticket_type)
        id  == InsertId(t)
        row == NewRow(ticket_type, id, NormalizedSqlValues(args))
    IN  /\ Free(p)
        /\ ~SelfReport(ticket_type, args, user)
        /\ calls' = calls + 1
        /\ table' = [table EXCEPT ![t] = @ \cup {row}]
        /\ seq' = [seq EXCEPT ![t] = SetMax({@, id})]
        /\ issued' = [issued EXCEPT ![t] = @ \cup {id}]
        /\ Goes(p, [Blank EXCEPT !.pc = "c_getid", !.cmd = cmd,
                                 !.ticket_type = ticket_type, !.user = user,
                                 !.args = args, !.ins = id])
        /\ IF OthersInCreate(p, t) = {}
           THEN /\ clean' = [clean EXCEPT ![p] = TRUE]
                /\ base' = base
           ELSE /\ clean' = [q \in Tasks |->
                               IF q = p \/ q \in OthersInCreate(p, t)
                               THEN FALSE ELSE clean[q]]
                /\ base' = [base EXCEPT ![t] = -1]
        /\ UNCHANGED <<channels, nextChan, posts, closedOk>>

\* create_ticket(interaction, ticket_type, *args): guard, then insert
CreateTicket(p, cmd, ticket_type, user, args) ==
    \/ Rebuff(p, cmd, ticket_type, user, args)
    \/ Insert(p, cmd, ticket_type, user, args)

\* /ticket report, get_member finds member m: create_ticket is called
SubmitReport(p, u, m, b) ==
    CreateTicket(p, "report", "REPORT", u, <<Member(u), Member(m), Str(b)>>)

\* /ticket suggestion: create_ticket is called
SubmitSuggestion(p, u, b) ==
    CreateTicket(p, "suggestion", "SUGGESTION", u, <<Member(u), Str(b)>>)

\* get the ticket id of the newly created ticket: ticket_id[0][0]
GetId(p) ==
    LET t      == TableOfTask(p)
        result == GetIdSql(t)
    IN  /\ task[p].pc = "c_getid"
        /\ IF result = <<>>
           THEN /\ Ends(p, task[p].cmd, "IndexError", <<>>)
                /\ CreateBroken(p)
           ELSE /\ Goes(p, [task[p] EXCEPT !.pc = "c_channel",
                                           !.ticket_id = result[1]])
                /\ UNCHANGED <<clean, base>>
        /\ UNCHANGED <<table, seq, channels, nextChan, posts, calls,
                       issued, closedOk>>

\* create_ticket_channel: guild.create_text_channel(name=f"{prefix}-ticket-{id}")
CreateChannel(p) ==
    LET c == [id |-> nextChan + 1,
              name |-> ChannelName(Lower(task[p].ticket_type), task[p].ticket_id)]
    IN  /\ task[p].pc = "c_channel"
        /\ channels' = channels \cup {c}
        /\ nextChan' = nextChan + 1
        /\ Goes(p, [task[p] EXCEPT !.pc = "c_update", !.channel = c.id])
        /\ UNCHANGED <<table, seq, posts, calls,
                       clean, base, issued, closedOk>>

\* the channel API refuses: the exception leaves create_ticket and on_submit
CreateChannelFail(p) ==
    /\ task[p].pc = "c_channel"
    /\ Ends(p, task[p].cmd, "ProvisioningError", <<>>)
    /\ CreateBroken(p)
    /\ UNCHANGED <<table, seq, channels, nextChan, posts, calls, issued, closedOk>>

\* store the channel id in the database with the ticket: UPDATE, commit
SetChannel(p) ==
    LET t == TableOfTask(p)
    IN  /\ task[p].pc = "c_update"
        /\ table' = [table EXCEPT ![t] =
                       UpdateChannel(t, task[p].channel, task[p].ticket_id)]
        /\ Goes(p, [task[p] EXCEPT !.pc = "c_send"])
        /\ UNCHANGED <<seq, channels, nextChan, posts, calls,
                       clean, base, issued, closedOk>>

\* the store is unavailable for the UPDATE: the exception leaves create_ticket
SetChannelFail(p) ==
    /\ task[p].pc = "c_update"
    /\ Ends(p, task[p].cmd, "StorageError", <<>>)
    /\ CreateBroken(p)
    /\ UNCHANGED <<table, seq, channels, nextChan, posts, calls, issued, closedOk>>

\* build the embed and send it into the channel; create_ticket returns and
\* on_submit thanks the user
SendSummary(p) ==
    LET t     == TableOfTask(p)
        embed == CreateTicketEmbed(task[p].ticket_type, task[p].ticket_id, task[p].args)
    IN  /\ task[p].pc = "c_send"
        /\ IF task[p].channel \in ChannelIds
           THEN /\ posts' = posts \cup {[channel |-> task[p].channel, embed |-> embed]}
                /\ Ends(p, task[p].cmd, "ok", <<Thanks(task[p].cmd)>>)
                /\ base' = [base EXCEPT ![t] =
                              IF clean[p] THEN task[p].ticket_id ELSE -1]
                /\ clean' = [clean EXCEPT ![p] = FALSE]
           ELSE /\ posts' = posts
                /\ Ends(p, task[p].cmd, "NotFound", <<>>)
                /\ CreateBroken(p)
        /\ UNCHANGED <<table, seq, channels, nextChan, calls, issued, closedOk>>

\* ----------------------------------------------------------- close_ticket
\* /ticket close ticket_type ticket_id: check that the ticket exists;
\* result[0][0] raises IndexError if it does not
CloseFind(p, ticket_type, ticket_id) ==
    LET result == SelectChannelId(TableOf(ticket_type), ticket_id)
    IN  /\ Free(p)
        /\ calls' = calls + 1
        /\ IF result = <<>>
           THEN Ends(p, "close", "not_found", <<"NO_TICKET">>)
           ELSE Goes(p, [Blank EXCEPT !.pc = CloseStage("k_find"), !.cmd = "close",
                                      !.ticket_type = ticket_type,
                                      !.ticket_id = ticket_id,
                                      !.channel = result[1]])
        /\ UNCHANGED <<table, seq, channels, nextChan, posts,
                       clean, base, issued, closedOk>>

\* after the last effect close_ticket tells the user that the ticket is closed
CloseStep(p, stage) ==
    IF CloseStage(stage) = "k_reply"
    THEN /\ Ends(p, "close", "ok", <<"CLOSED">>)
         /\ closedOk' = closedOk \cup {<<TableOfTask(p), task[p].ticket_id>>}
    ELSE /\ Goes(p, [task[p] EXCEPT !.pc = CloseStage(stage),
                                    !.deleted = (@ \/ stage = "k_delete")])
         /\ closedOk' = closedOk

\* delete the ticket from the database: DELETE, commit
CloseDelete(p) ==
    LET t == TableOfTask(p)
        creating == {q \in Tasks : InCreate(q) /\ TableOfTask(q) = t}
    IN  /\ task[p].pc = "k_delete"
        /\ table' = [table EXCEPT ![t] = DeleteRow(t, task[p].ticket_id)]
        /\ CloseStep(p, "k_delete")
        /\ clean' = [q \in Tasks |-> IF q \in creating THEN FALSE ELSE clean[q]]
        /\ base' = [base EXCEPT ![t] =
                      IF table'[t] = {} /\ creating = {} THEN 0 ELSE -1]
        /\ UNCHANGED <<seq, channels, nextChan, posts, calls, issued>>

\* delete the ticket channel: guild.get_channel(channel_id).delete(...);
\* get_channel gives None for a channel that is not there; the messages of
\* a deleted channel go with it
CloseTeardown(p) ==
    /\ task[p].pc = "k_teardown"
    /\ IF GetChannel(task[p].channel) # {}
       THEN /\ channels' = channels \ GetChannel(task[p].channel)
            /\ posts' = {m \in posts : m.channel # task[p].channel}
            /\ CloseStep(p, "k_teardown")
       ELSE /\ UNCHANGED <<channels, posts, closedOk>>
            /\ Ends(p, "close", "AttributeError", <<>>)
    /\ UNCHANGED <<table, seq, nextChan, calls, clean, base, issued>>

\* the channel API refuses the delete: the exception leaves close_ticket
CloseTeardownFail(p) ==
    /\ task[p].pc = "k_teardown"
    /\ GetChannel(task[p].channel) # {}
    /\ Ends(p, "close", "ProvisioningError", <<>>)
    /\ UNCHANGED <<table, seq, channels, nextChan, posts, calls,
                   clean, base, issued, closedOk>>

\* ------------------------------------------------------- the specification
Next ==
    \/ \E p \in Tasks, u \in Users, b \in Bodies : ReportUnresolved(p, u, b)
    \/ \E p \in Tasks, u \in Users, b \in Bodies :
          \E m \in Resolved(u) : SubmitReport(p, u, m, b)
    \/ \E p \in Tasks, u \in Users, b \in Bodies : SubmitSuggestion(p, u, b)
    \/ \E p \in Tasks : GetId(p)
    \/ \E p \in Tasks : CreateChannel(p)
    \/ \E p \in Tasks : CreateChannelFail(p)
    \/ \E p \in Tasks : SetChannel(p)
    \/ \E p \in Tasks : SetChannelFail(p)
    \/ \E p \in Tasks : SendSummary(p)
    \/ \E p \in Tasks, ty \in TicketTypes, id \in TicketIds : CloseFind(p, ty, id)
    \/ \E p \in Tasks : CloseDelete(p)
    \/ \E p \in Tasks : CloseTeardown(p)
    \/ \E p \in Tasks : CloseTeardownFail(p)

Spec == Init /\ [][Next]_vars


\* the next effect of the handler that task p runs, when the call it awaits
\* succeeds
TaskStep(p) ==
    \/ GetId(p)
    \/ CreateChannel(p)
    \/ SetChannel(p)
    \/ SendSummary(p)
    \/ CloseDelete(p)
    \/ CloseTeardown(p)

\* the commands when no storage and no provisioning call fails
NextNoFailure ==
    \/ \E p \in Tasks, u \in Users, b \in Bodies : ReportUnresolved(p, u, b)
    \/ \E p \in Tasks, u \in Users, b \in Bodies :
          \E m \in Resolved(u) : SubmitReport(p, u, m, b)
    \/ \E p \in Tasks, u \in Users, b \in Bodies : SubmitSuggestion(p, u, b)
    \/ \E p \in Tasks, ty \in TicketTypes, id \in TicketIds : CloseFind(p, ty, id)
    \/ \E p \in Tasks : TaskStep(p)

\* The event loop resumes every handler whose awaited call has completed, so
\* a handler that can take its next step takes it; users need not submit.
FairSpec ==
    /\ Init
    /\ [][NextNoFailure]_vars
    /\ \A p \in Tasks : WF_vars(TaskStep(p))

\* ------------------------------------------------------------------ steps
\* find_by_id(type, id): the row, or NotFound
FindById(t, id) == {r \in table[t] : r.ticket_id = id}

\* find_by_id(type, id) after the step
FindByIdNext(t, id) == {r \in table'[t] : r.ticket_id = id}

\* task p stops running its handler in this step
EndsStep(p) == task[p].pc # "idle" /\ task'[p].pc = "idle"

\* create_ticket of task p fails in its step 3 (provisioning) or 4 (set_channel)
CreateFailsStep(p) ==
    /\ task[p].pc \in {"c_channel", "c_update"}
    /\ EndsStep(p)
    /\ ended'.out \in {"ProvisioningError", "StorageError"}

\* close_ticket of task p attempts the teardown of its channel
TeardownStep(p) == task[p].pc = "k_teardown" /\ task'[p].pc # "k_teardown"

\* create_ticket of task p obtains its ticket id
GetIdStep(p) == task[p].pc = "c_getid" /\ task'[p].pc = "c_channel"

\* ----------------------------------------------------------------- claims

\* C1: a report whose accused is the reporter is rejected before any write:
\* no create_ticket gets past the guard with accused = reporter, the step
\* that rejects changes neither table nor channels nor posts, and no row of
\* the report table has user_id = accused_user_id.
C1_SelfReportGuard ==
    /\ [](/\ \A r \in table[TableOf("REPORT")] : r.user_id # r.accused_user_id
          /\ \A p \in Tasks :
                InCreate(p) /\ task[p].ticket_type = "REPORT"
                    => task[p].args[2].id # task[p].user)
    /\ [][ended'.out = "rejected"
            => /\ table' = table
               /\ channels' = channels
               /\ posts' = posts
               /\ \A p \in Tasks : task'[p].pc = "idle" \/ task'[p] = task[p]]_vars

C1_Witness ==
    /\ ended.cmd = "report"
    /\ ended.out = "rejected"
    /\ "SELF_REPORT" \in {ended.msgs[i] : i \in 1..Len(ended.msgs)}

\* C2: when create_ticket returns normally, find_by_id of the row this call
\* inserted gives a row whose channel_id is the channel this call provisioned.
C2_FindAfterCreate ==
    [][\A p \in Tasks :
         task[p].pc = "c_send" /\ EndsStep(p) /\ ended'.out = "ok"
            => \E r \in FindByIdNext(TableOfTask(p), task[p].ins) :
                  r.channel_id = task[p].channel]_vars

\* C3: the ticket id create_ticket obtains after its insert is the id of the
\* row this call inserted.
C3_ObtainedIdIsInserted ==
    \A p \in Tasks :
        task[p].pc \in {"c_channel", "c_update", "c_send"}
            => task[p].ticket_id = task[p].ins

\* C4: once close_ticket(type, id) has reported success, find_by_id(type, id)
\* gives NotFound in every later state.
C4_CloseThenFind ==
    \A c \in closedOk : FindById(c[1], c[2]) = {}

\* a ticket was closed and a later ticket was opened in the same table
C4_Witness ==
    \E c \in closedOk : \E r \in table[c[1]] : r.channel_id # NULL

C6_CloseMissing ==
    [][/\ \A p \in Tasks :
            Idle(p) /\ task'[p].cmd = "close"
                => FindById(TableOfTask(p)', task'[p].ticket_id) # {}
       /\ ended'.out = "not_found"
            => /\ table' = table
               /\ channels' = channels
               /\ posts' = posts
               /\ task' = task]_vars

\* not_found on a table that holds another ticket
C6_Witness ==
    /\ ended.out = "not_found"
    /\ \E t \in Tables : table[t] # {}

C8_IdsNeverReused ==
    /\ [](\A t \in Tables : \A r1, r2 \in table[t] :
            r1.ticket_id = r2.ticket_id => r1 = r2)
    /\ [][\A t \in Tables : \A r \in table'[t] :
            r.ticket_id \notin RowIds(t) => r.ticket_id \notin issued[t]]_vars

\* the highest ticket of a table was deleted and a later ticket got a new id
C8_Witness ==
    \E t \in Tables : \E r \in table[t] :
        \E i \in issued[t] \ RowIds(t) :
            /\ i < r.ticket_id
            /\ \A j \in issued[t] : j > i => j = r.ticket_id

\* C9: when step 3 or 4 of create_ticket fails, the row this call inserted
\* (unless a close_ticket deleted it) has channel_id null, the failing step
\* writes nothing, and no summary is posted.
C9_NoRollback ==
    [][\A p \in Tasks :
         CreateFailsStep(p)
            => /\ table' = table
               /\ posts' = posts
               /\ \A r \in FindByIdNext(TableOfTask(p), task[p].ins) :
                     r.channel_id = NULL]_vars

\* C10: the channel_id of a row changes at most once, from null to a channel.
C10_ChannelSetOnce ==
    [][\A t \in Tables : \A r \in table[t] : \A n \in table'[t] :
         r.ticket_id = n.ticket_id /\ r.channel_id # n.channel_id
            => r.channel_id = NULL /\ n.channel_id # NULL]_vars

\* create_ticket of task p provisions its channel
CreateChannelStep(p) == task[p].pc = "c_channel" /\ task'[p].pc = "c_update"

\* C11: the channel create_ticket provisions is named <type>-ticket-<id> with
\* the lower-case type and the id the call obtained from the store, and the
\* first SUGGESTION ticket of a table that was empty (the call inserted the
\* table's first row) gets id 1 and the channel name suggestion-ticket-1.
C11_ChannelName ==
    [][\A p \in Tasks :
         CreateChannelStep(p)
            => \E c \in channels' \ channels :
                  /\ c.id = task'[p].channel
                  /\ c.name = ChannelName(Lower(task[p].ticket_type), task[p].ticket_id)
                  /\ task[p].ticket_type = "SUGGESTION" /\ task[p].ins = 1
                        => /\ task[p].ticket_id = 1
                           /\ c.name = <<"suggestion", "ticket", 1>>]_vars

\* create_ticket of task p builds and sends its summary, or fails to send it
SendStep(p) == task[p].pc = "c_send" /\ task'[p].pc = "idle"

\* the summary fields the claim gives for a ticket: for a REPORT accuser,
\* accused, reason; for a SUGGESTION submitter, suggestion text
SummaryFields(ticket_type, reporter, accused, body) ==
    IF ticket_type = "REPORT"
    THEN << <<"Accuser", <<"mention", reporter>> >>,
            <<"Accusing", <<"mention", accused>> >>,
            <<"Reason Given", body>> >>
    ELSE << <<"Suggestion From", <<"mention", reporter>> >>,
            <<"Suggestion/Feature Request", body>> >>

\* C12: the summary is a function of (type, id, reporter, body, accused)
\* alone: whatever the store and the guild hold, the summary create_ticket
\* posts has exactly the fields accuser, accused, reason (REPORT) or
\* submitter, suggestion text (SUGGESTION) in that order, with the call's own
\* values and id, and the step that builds it changes no table and no channel.
C12_SummaryFields ==
    [][\A p \in Tasks :
         SendStep(p)
            => LET a == task[p].args
                   expected ==
                       SummaryFields(task[p].ticket_type, task[p].user,
                                     IF task[p].ticket_type = "REPORT"
                                     THEN a[2].id ELSE NoMember,
                                     a[Len(a)].val)
               IN  /\ table' = table
                   /\ seq' = seq
                   /\ channels' = channels
                   /\ \A m \in posts' \ posts :
                         /\ m.channel = task[p].channel
                         /\ m.embed.fields = expected
                         /\ m.embed.title =
                              <<Title(task[p].ticket_type), "Ticket", task[p].ticket_id>>
                   /\ ended'.out = "ok" => posts' # posts]_vars

\* a report summary and a suggestion summary have been posted
C12_Witness ==
    /\ ended.out = "ok"
    /\ \E m \in posts : m.channel > 1 /\ Len(m.embed.fields) = 3
    /\ \E m \in posts : Len(m.embed.fields) = 2

\* C13: a close_ticket that meets no storage or provisioning failure ends by
\* reporting ok or not_found, whatever creates and closes run beside it.
C13_CloseOutcome ==
    ended.cmd = "close" => ended.out \in {"ok", "not_found", "ProvisioningError"}

\* C14: a report whose accused get_member does not resolve to a Member is
\* answered with the plain rejection message and goes no further: no
\* create_ticket runs with an unresolved accused, no report row names one, and
\* the step that rejects changes neither tables nor channels nor posts and
\* leaves no task running.
C14_UnresolvedRejected ==
    /\ [](/\ \A r \in table[TableOf("REPORT")] : r.accused_user_id # NoMember
          /\ \A p \in Tasks :
                InCreate(p) /\ task[p].ticket_type = "REPORT"
                    => task[p].args[2].id # NoMember)
    /\ [][ended'.out = "unresolved"
            => /\ ended'.msgs = <<"UNABLE">>
               /\ table' = table
               /\ channels' = channels
               /\ posts' = posts
               /\ \A p \in Tasks : task'[p].pc = "idle" \/ task'[p] = task[p]]_vars

\* an unresolved report was rejected while another submission's ticket exists
C14_Witness ==
    /\ ended.cmd = "report"
    /\ ended.out = "unresolved"
    /\ ended.msgs = <<"UNABLE">>
    /\ calls > 1

\* a row of table t with ticket id i whose channel_id is null
Pending(t, i) == \E r \in table[t] : r.ticket_id = i /\ r.channel_id = NULL

\* C15: absent failures and under fair scheduling, every row with channel_id
\* null eventually has a channel_id or is deleted.
C15_PendingEnds ==
    \A t \in Tables : \A i \in 1..(MaxCalls + 1) :
        Pending(t, i) ~> ~Pending(t, i)

\* task p enters stage pc of create_ticket in this step
Enters(p, pc) == task[p].pc # pc /\ task'[p].pc = pc

\* C16: create_ticket takes its steps in the order insert (channel_id null),
\* provision, set_channel, summary: each stage is entered from the one before
\* it with that stage's effect and no other; the summary is posted only by a
\* call whose UPDATE is committed, and only into the channel that call
\* provisioned.
C16_StepOrder ==
    [][/\ \A p \in Tasks :
            LET t == TableOf(task'[p].ticket_type)
            IN  /\ Enters(p, "c_getid")
                    => /\ task[p].pc = "idle"
                       /\ \E r \in table'[t] \ table[t] :
                             /\ r.ticket_id = task'[p].ins
                             /\ r.channel_id = NULL
                       /\ channels' = channels /\ posts' = posts
                /\ Enters(p, "c_channel")
                    => /\ task[p].pc = "c_getid"
                       /\ table' = table /\ channels' = channels /\ posts' = posts
                /\ Enters(p, "c_update")
                    => /\ task[p].pc = "c_channel"
                       /\ \E c \in channels' \ channels : c.id = task'[p].channel
                       /\ table' = table /\ posts' = posts
                /\ Enters(p, "c_send")
                    => /\ task[p].pc = "c_update"
                       /\ task'[p].channel = task[p].channel
                       /\ \A r \in table'[t] :
                             r.ticket_id = task[p].ticket_id
                                => r.channel_id = task[p].channel
                       /\ channels' = channels /\ posts' = posts
       /\ \A m \in posts' \ posts :
            \E p \in Tasks : /\ task[p].pc = "c_send"
                             /\ task'[p].pc = "idle"
                             /\ m.channel = task[p].channel
                             /\ table' = table]_vars

\* a suggestion went through all steps: its row has the channel and the
\* channel has the summary
C16_Witness ==
    /\ ended.cmd = "suggestion"
    /\ ended.out = "ok"
    /\ \E r \in table[TableOf("SUGGESTION")] :
          /\ r.channel_id # NULL
          /\ \E m \in posts : m.channel = r.channel_id

\* no create_ticket and no close_ticket is in progress
Quiescent == \A p \in Tasks : Idle(p)

\* the rows, of either table, whose channel_id is channel c
RowsOf(c) ==
    UNION {{<<t, r.ticket_id>> : r \in {x \in table[t] : x.channel_id = c}}
              : t \in Tables}

\* C17: absent failures, in every quiescent state every ticket channel is
\* the channel_id of exactly one row and every row's channel_id is an
\* existing channel.
C17_RowsMatchChannels ==
    Quiescent
        => /\ \A c \in ChannelIds : Cardinality(RowsOf(c)) = 1
           /\ \A t \in Tables : \A r \in table[t] : r.channel_id \in ChannelIds

\* what the handler that ended in this step told the user
Told == {ended.msgs[i] : i \in 1..Len(ended.msgs)}

\* C18: the report command thanks the user only for a submission for which
\* create_ticket created a ticket; a self-report gets the rebuff and no
\* thanks.
C18_ThanksOnlyForTicket ==
    /\ "THANKS_REPORT" \in Told => ended.out = "ok"
    /\ "SELF_REPORT" \in Told => "THANKS_REPORT" \notin Told

\* the partitions as the claim names them: a type's own table and the
\* table of the other type
OwnTable(ticket_type) ==
    IF ticket_type = "REPORT" THEN "user_report_tickets"
                              ELSE "user_suggestion_tickets"
OtherTable(ticket_type) ==
    IF ticket_type = "REPORT" THEN "user_suggestion_tickets"
                              ELSE "user_report_tickets"

\* the ticket type of the command task p runs in this step
StepType(p) ==
    IF task'[p].pc # "idle" THEN task'[p].ticket_type ELSE task[p].ticket_type

\* C19: a step of create_ticket or close_ticket for one ticket type leaves
\* the table of the other type unchanged, and a close_ticket(type, id) that
\* goes on found the row with that id in the table of its own type and took
\* that row's channel_id.
C19_PartitionIsolation ==
    [][/\ \A p \in Tasks :
            task'[p] # task[p]
                => /\ table'[OtherTable(StepType(p))] = table[OtherTable(StepType(p))]
                   /\ Idle(p) /\ task'[p].cmd = "close"
                        => \E r \in table[OwnTable(StepType(p))] :
                              /\ r.ticket_id = task'[p].ticket_id
                              /\ r.channel_id = task'[p].channel
       /\ task' = task => table' = table]_vars

\* REPORT ticket 1 was closed while the SUGGESTION table holds a ticket 1
C19_Witness ==
    /\ <<"user_report_tickets", 1>> \in closedOk
    /\ \E r \in table["user_suggestion_tickets"] : r.ticket_id = 1

====
